---- MODULE Spec2Model ----
(***************************************************************************)
(* Model of .github/scripts/parse_xcresult.py: the xcresult report         *)
(* extractor.  main() is a straight-line sequence of guarded steps; each   *)
(* step is one action.  The helper functions of the script are operators   *)
(* that are evaluated the way the Python code evaluates them, including    *)
(* the exceptions that dict.get raises on a value that is not a dict.      *)
(*                                                                         *)
(* JSON values are tagged records.  Strings are sequences of code points   *)
(* (65 is "A"), so that str() formatting and the ordering used by sorted() *)
(* are computed and not assumed.  The "_value" leaves of the inputs are    *)
(* JSON strings or null.                                                   *)
(***************************************************************************)
EXTENDS Integers, Sequences, FiniteSets, TLC

VARIABLES xcresult_json, bundle, tool, pc, data, out, printed_any, idx,
          tests_ref, tests_data, failures, exit_code, error, tool_calls

vars == <<xcresult_json, bundle, tool, pc, data, out, printed_any, idx,
          tests_ref, tests_data, failures, exit_code, error, tool_calls>>

(***************************************************************************)
(* JSON values as produced by json.load / json.loads                       *)
(***************************************************************************)
JNull == [t |-> "null"]
JStr(s) == [t |-> "str", s |-> s]
JObj(f) == [t |-> "obj", f |-> f]
JList(v) == [t |-> "list", v |-> v]

\* Python None is what json.load gives for null
None == JNull
\* the {} default of dict.get(key, {})
EmptyDict == JObj(<<>>)
\* the "" default of .get("_value", "")
EmptyStr == JStr(<<>>)

\* an exception travelling up the call stack
Raise(e) == [t |-> "raise", e |-> e]
IsRaise(v) == v.t = "raise"

\* Python truth value of a JSON value (if x:, x or y, bool(x))
Truthy(v) ==
    CASE v.t = "null" -> FALSE
      [] v.t = "str" -> v.s # <<>>
      [] v.t = "list" -> v.v # <<>>
      [] v.t = "obj" -> DOMAIN v.f # {}
      [] OTHER -> FALSE

\* d.get(k, dflt): AttributeError unless d is a dict
Get(d, k, dflt) ==
    IF IsRaise(d) THEN d
    ELSE IF d.t # "obj" THEN Raise("AttributeError")
    ELSE IF k \in DOMAIN d.f THEN d.f[k]
    ELSE dflt

\* x.get(k, {}).get("_value")
GetValue(x, k) == Get(Get(x, k, EmptyDict), "_value", None)

\* str(v) inside an f-string: None prints as the four letters of None
PyStr(v) == IF v.t = "str" THEN v.s ELSE <<78, 111, 110, 101>>

\* one printed line: the print statement it comes from, the literal text it
\* starts with, the formatted text that follows, and (for the lines of
\* emit_issues) the item it was printed for
Line(site, pre, text, src) == [site |-> site, pre |-> pre, text |-> text, src |-> src]
Diag(site, pre) == Line(site, pre, <<>>, <<>>)

NoErr == "none"

(***************************************************************************)
(* load_json                                                               *)
(***************************************************************************)
\* the test without the size check
IsEmptyInput_NoSize(f) == f.path = <<>> \/ ~f.exists

\* not path or not os.path.exists(path) or os.path.getsize(path) == 0
IsEmptyInput(f) == f.path = <<>> \/ ~f.exists \/ f.size = 0

\* the value returned (None, the document, or JSONDecodeError from
\* json.load) and the lines printed
load_json(f) ==
    IF IsEmptyInput(f)
    THEN [lines |-> <<Diag("empty", "xcresult JSON is empty.")>>, ret |-> None]
    ELSE IF ~f.valid
    THEN [lines |-> <<>>, ret |-> Raise("JSONDecodeError")]
    ELSE [lines |-> <<>>, ret |-> f.doc]

(***************************************************************************)
(* emit_issues, emit_all_issues                                            *)
(***************************************************************************)
LabelTest == <<84, 101, 115, 116>>
LabelError == <<69, 114, 114, 111, 114>>
LabelWarning == <<87, 97, 114, 110, 105, 110, 103>>
LabelGlobal == <<71, 108, 111, 98, 97, 108>>
LabelAnalyzer == <<65, 110, 97, 108, 121, 122, 101, 114>>

Categories ==
    << [key |-> "testFailureSummaries", label |-> LabelTest],
       [key |-> "errorSummaries", label |-> LabelError],
       [key |-> "warningSummaries", label |-> LabelWarning],
       [key |-> "globalIssueSummaries", label |-> LabelGlobal],
       [key |-> "analyzerWarningSummaries", label |-> LabelAnalyzer] >>

\* the lines one item prints: f"- {prefix} {message}" when name or message,
\* then f"  {location}" when location
item_lines(label, name, message, location, src) ==
    LET prefix == IF Truthy(name)
                  THEN label \o <<32>> \o PyStr(name) \o <<58>>
                  ELSE label \o <<58>>
    IN  (IF Truthy(name) \/ Truthy(message)
         THEN <<Line("issue", "- ", prefix \o <<32>> \o PyStr(message), src)>>
         ELSE <<>>)
        \o
        (IF Truthy(location)
         THEN <<Line("location", "  ", PyStr(location), src)>>
         ELSE <<>>)

\* the for loop of emit_issues from item j on; acc is what was printed so far
RECURSIVE emit_items(_, _, _, _, _)
emit_items(items, key, label, j, acc) ==
    IF j > Len(items) THEN [lines |-> acc, err |-> NoErr]
    ELSE LET item == items[j]
             name == GetValue(item, "testCaseName")
             message == GetValue(item, "message")
             location ==
                 Get(Get(Get(item, "documentLocationInCreatingWorkspace", EmptyDict),
                         "url", EmptyDict), "_value", None)
         IN  IF IsRaise(name) THEN [lines |-> acc, err |-> name.e]
             ELSE IF IsRaise(message) THEN [lines |-> acc, err |-> message.e]
             ELSE IF IsRaise(location) THEN [lines |-> acc, err |-> location.e]
             ELSE emit_items(items, key, label, j + 1,
                             acc \o item_lines(label, name, message, location, <<key, j>>))

\* what emit_issues returns
issues_result(items) == items # <<>>

emit_issues(issues, key, label) ==
    LET raw == Get(Get(issues, key, EmptyDict), "_values", None)
    IN  IF IsRaise(raw) THEN [lines |-> <<>>, ret |-> FALSE, err |-> raw.e]
        ELSE LET items == IF Truthy(raw) THEN raw ELSE JList(<<>>)
             IN  IF items.t # "list"
                 \* iterating a non-empty string or dict yields strings, and
                 \* the first item.get raises
                 THEN [lines |-> <<>>, ret |-> FALSE, err |-> "AttributeError"]
                 ELSE LET r == emit_items(items.v, key, label, 1, <<>>)
                      IN  [lines |-> r.lines,
                           ret |-> r.err = NoErr /\ issues_result(items.v),
                           err |-> r.err]

RECURSIVE emit_categories(_, _, _, _)
emit_categories(issues, c, printed, acc) ==
    IF c > Len(Categories) THEN [lines |-> acc, ret |-> printed, err |-> NoErr]
    ELSE LET r == emit_issues(issues, Categories[c].key, Categories[c].label)
         IN  IF r.err # NoErr
             THEN [lines |-> acc \o r.lines, ret |-> printed, err |-> r.err]
             ELSE emit_categories(issues, c + 1, r.ret \/ printed, acc \o r.lines)

emit_all_issues(issues) ==
    IF IsRaise(issues) THEN [lines |-> <<>>, ret |-> FALSE, err |-> issues.e]
    ELSE emit_categories(issues, 1, FALSE, <<>>)

(***************************************************************************)
(* extract_tests_ref                                                       *)
(***************************************************************************)
\* data.get("actions", {}).get("_values") or []
ActionsOf(d) ==
    LET raw == Get(Get(d, "actions", EmptyDict), "_values", None)
    IN  IF IsRaise(raw) THEN raw
        ELSE IF ~Truthy(raw) THEN JList(<<>>)
        \* iterating a non-empty string or dict yields strings, and the first
        \* action.get raises
        ELSE IF raw.t # "list" THEN Raise("AttributeError")
        ELSE raw

RefOf(action) ==
    Get(Get(Get(Get(action, "actionResult", EmptyDict), "testsRef", EmptyDict),
            "id", EmptyDict), "_value", EmptyStr)

\* the loop returning the first action's reference without testing it
extract_loop_NoTest(actions, i) ==
    IF i > Len(actions) THEN EmptyStr ELSE RefOf(actions[i])

RECURSIVE extract_loop(_, _)
extract_loop(actions, i) ==
    IF i > Len(actions) THEN EmptyStr
    ELSE LET ref == RefOf(actions[i])
         IN  IF IsRaise(ref) THEN ref
             ELSE IF Truthy(ref) THEN ref
             ELSE extract_loop(actions, i + 1)

extract_tests_ref(d) ==
    LET actions == ActionsOf(d)
    IN  IF IsRaise(actions) THEN actions ELSE extract_loop(actions.v, 1)

(***************************************************************************)
(* load_tests_ref: the one external tool invocation                        *)
(***************************************************************************)
\* tl is what xcrun does when it is run: "notfound" (no such executable),
\* "fail" (non-zero exit), "garbage" (stdout is not JSON), "json" (stdout
\* parses to tl.tree)
\* run without check=True: a non-zero exit goes unnoticed and the empty
\* stdout fails to decode
load_tests_ref_Unchecked(bundle_path, ref, tl) ==
    IF bundle_path = <<>> \/ ref = <<>>
    THEN [lines |-> <<>>, ret |-> None, called |-> 0]
    ELSE IF tl.kind = "notfound"
    THEN [lines |-> <<>>, ret |-> Raise("FileNotFoundError"), called |-> 1]
    ELSE IF tl.kind \in {"fail", "garbage"}
    THEN [lines |-> <<Diag("decodefail", "Failed to decode testsRef JSON.")>>,
          ret |-> None, called |-> 1]
    ELSE [lines |-> <<>>, ret |-> tl.tree, called |-> 1]

\* the guard testing the reference only
load_tests_ref_NoBundleTest(bundle_path, ref, tl) ==
    IF ref = <<>>
    THEN [lines |-> <<>>, ret |-> None, called |-> 0]
    ELSE IF tl.kind = "notfound"
    THEN [lines |-> <<>>, ret |-> Raise("FileNotFoundError"), called |-> 1]
    ELSE IF tl.kind = "fail"
    THEN [lines |-> <<Line("toolfail", "xcresulttool failed to read testsRef ", ref, <<>>)>>,
          ret |-> None, called |-> 1]
    ELSE IF tl.kind = "garbage"
    THEN [lines |-> <<Diag("decodefail", "Failed to decode testsRef JSON.")>>,
          ret |-> None, called |-> 1]
    ELSE [lines |-> <<>>, ret |-> tl.tree, called |-> 1]

load_tests_ref(bundle_path, ref, tl) ==
    IF bundle_path = <<>> \/ ref = <<>>
    THEN [lines |-> <<>>, ret |-> None, called |-> 0]
    ELSE IF tl.kind = "notfound"
    THEN [lines |-> <<>>, ret |-> Raise("FileNotFoundError"), called |-> 1]
    ELSE IF tl.kind = "fail"
    THEN [lines |-> <<Line("toolfail", "xcresulttool failed to read testsRef ", ref, <<>>)>>,
          ret |-> None, called |-> 1]
    ELSE IF tl.kind = "garbage"
    THEN [lines |-> <<Diag("decodefail", "Failed to decode testsRef JSON.")>>,
          ret |-> None, called |-> 1]
    ELSE [lines |-> <<>>, ret |-> tl.tree, called |-> 1]

(***************************************************************************)
(* collect_failing_tests                                                   *)
(***************************************************************************)
StatusFailure == <<70, 97, 105, 108, 117, 114, 101>>
StatusFailed == <<70, 97, 105, 108, 101, 100>>
StatusSuccess == <<83, 117, 99, 99, 101, 115, 115>>

\* status in {"Failure", "Failed"}
IsFailing(status) == status \in {JStr(StatusFailure), JStr(StatusFailed)}

\* node.get("identifier", {}).get("_value") or node.get("name", {}).get("_value")
display_name(node) ==
    LET ident == GetValue(node, "identifier")
    IN  IF IsRaise(ident) THEN ident
        ELSE IF Truthy(ident) THEN ident
        ELSE GetValue(node, "name")

RECURSIVE collect_failing_tests(_, _)
RECURSIVE collect_values(_, _, _)
RECURSIVE collect_list(_, _, _)

\* for value in node.values(): the walk of a dict's values.  The result does
\* not depend on the order: an exception in any value ends the walk.
collect_values(f, keys, acc) ==
    IF keys = {} THEN [failures |-> acc, err |-> NoErr]
    ELSE LET k == CHOOSE x \in keys : TRUE
             r == collect_failing_tests(f[k], acc)
         IN  IF r.err # NoErr THEN r ELSE collect_values(f, keys \ {k}, r.failures)

\* for value in node: the walk of a list from element i on
collect_list(v, i, acc) ==
    IF i > Len(v) THEN [failures |-> acc, err |-> NoErr]
    ELSE LET r == collect_failing_tests(v[i], acc)
         IN  IF r.err # NoErr THEN r ELSE collect_list(v, i + 1, r.failures)

\* the walk that stops at a failing node instead of descending into it
collect_failing_tests_NoDescent(node, acc) ==
    IF node.t = "obj"
    THEN LET status == GetValue(node, "testStatus")
         IN  IF IsRaise(status) THEN [failures |-> acc, err |-> status.e]
             ELSE IF IsFailing(status)
             THEN LET name == display_name(node)
                  IN  IF IsRaise(name) THEN [failures |-> acc, err |-> name.e]
                      ELSE [failures |-> IF Truthy(name) THEN acc \cup {name.s} ELSE acc,
                            err |-> NoErr]
             ELSE collect_values(node.f, DOMAIN node.f, acc)
    ELSE IF node.t = "list" THEN collect_list(node.v, 1, acc)
    ELSE [failures |-> acc, err |-> NoErr]

collect_failing_tests(node, acc) ==
    IF node.t = "obj"
    THEN LET status == GetValue(node, "testStatus")
         IN  IF IsRaise(status) THEN [failures |-> acc, err |-> status.e]
             ELSE IF IsFailing(status)
             THEN LET name == display_name(node)
                  IN  IF IsRaise(name) THEN [failures |-> acc, err |-> name.e]
                      ELSE collect_values(node.f, DOMAIN node.f,
                                          IF Truthy(name) THEN acc \cup {name.s} ELSE acc)
             ELSE collect_values(node.f, DOMAIN node.f, acc)
    ELSE IF node.t = "list" THEN collect_list(node.v, 1, acc)
    ELSE [failures |-> acc, err |-> NoErr]

(***************************************************************************)
(* sorted(failures): Python orders strings by code point, a proper prefix  *)
(* before the longer string                                                *)
(***************************************************************************)
RECURSIVE StrLess(_, _)
StrLess(a, b) ==
    IF b = <<>> THEN FALSE
    ELSE IF a = <<>> THEN TRUE
    ELSE IF Head(a) # Head(b) THEN Head(a) < Head(b)
    ELSE StrLess(Tail(a), Tail(b))

\* the names in descending order
RECURSIVE sorted_Descending(_)
sorted_Descending(S) ==
    IF S = {} THEN <<>>
    ELSE LET m == CHOOSE x \in S : \A y \in S \ {x} : StrLess(y, x)
         IN  <<m>> \o sorted_Descending(S \ {m})

RECURSIVE sorted(_)
sorted(S) ==
    IF S = {} THEN <<>>
    ELSE LET m == CHOOSE x \in S : \A y \in S \ {x} : StrLess(x, y)
         IN  <<m>> \o sorted(S \ {m})

\* the lines of the failing-tests report
RECURSIVE name_lines(_)
name_lines(names) ==
    IF names = <<>> THEN <<>>
    ELSE <<Line("failing", "- ", Head(names), <<>>)>> \o name_lines(Tail(names))

report_lines(fs) ==
    IF fs # {}
    THEN <<Diag("header", "Failing tests (testsRef):")>> \o name_lines(sorted(fs))
    ELSE <<Diag("nofailing", "No failing tests found in testsRef.")>>

(***************************************************************************)
(* Inputs: the file named by --xcresult-json, the --bundle path and what   *)
(* the external tool does.  The sets below are the bounded families the    *)
(* runs are drawn from.                                                    *)
(***************************************************************************)
\* longest string used as a test name in a flat tree
MaxStrLen == 2
\* most items in one category's list
MaxItems == 2
\* most actions in a document
MaxActions == 3
\* most nodes in a flat tree of failing tests
MaxNodes == 3

sA == <<65>>
sB == <<66>>
Alphabet == {65, 66}

\* the non-empty strings over Alphabet of length up to n
RECURSIVE StrsUpTo(_)
StrsUpTo(n) ==
    IF n = 0 THEN {<<>>}
    ELSE LET shorter == StrsUpTo(n - 1)
         IN  shorter \cup {Append(s, c) : s \in shorter, c \in Alphabet}
Names == StrsUpTo(MaxStrLen) \ {<<>>}

\* the sequences over S of length lo..hi
SeqsOf(S, lo, hi) == UNION {[1..n -> S] : n \in lo..hi}

\* a dict from a set of <<key, value>> pairs with distinct keys
MkObj(P) == JObj([k \in {p[1] : p \in P} |-> (CHOOSE p \in P : p[1] = k)[2]])
\* a key that is absent or holds one of Vs
Opt(k, Vs) == {{}} \cup {{<<k, v>>} : v \in Vs}
\* {"_value": s}
Val(s) == JObj("_value" :> JStr(s))
\* {"_values": [..]}
Vals(v) == JObj("_values" :> JList(v))
\* not a dict: null or a string in the place of an object
NonObjects == {JNull, JStr(sA)}

\* ----- issue items
LocOf(u) == JObj("url" :> u)
GoodItems ==
    {MkObj(a \cup b \cup c) :
        a \in Opt("testCaseName", {Val(sA)}),
        b \in Opt("message", {Val(sB)}),
        c \in Opt("documentLocationInCreatingWorkspace", {LocOf(Val(sA))})}
OddItems ==
    {MkObj({<<"testCaseName", v>>, <<"message", Val(sB)>>}) :
        v \in {EmptyDict, JObj("_value" :> JNull), Val(<<>>)}}
    \cup {MkObj({<<"testCaseName", Val(sA)>>, <<"message", Val(<<>>)>>})}
    \cup {MkObj({<<"message", Val(sB)>>, <<"documentLocationInCreatingWorkspace", v>>}) :
            v \in {EmptyDict, LocOf(EmptyDict), LocOf(Val(<<>>))}}
BadItems ==
    NonObjects
    \cup {MkObj({<<k, v>>}) :
            k \in {"testCaseName", "message", "documentLocationInCreatingWorkspace"},
            v \in NonObjects}
    \cup {MkObj({<<"testCaseName", Val(sA)>>,
                 <<"documentLocationInCreatingWorkspace", LocOf(v)>>}) : v \in NonObjects}
ItemSet == GoodItems \cup OddItems \cup BadItems
\* the items used in the longer lists
CoreItems ==
    {EmptyDict,
     MkObj({<<"testCaseName", Val(sA)>>}),
     MkObj({<<"message", Val(sB)>>}),
     MkObj({<<"documentLocationInCreatingWorkspace", LocOf(Val(sA))>>}),
     MkObj({<<"testCaseName", Val(sA)>>, <<"message", Val(sB)>>,
            <<"documentLocationInCreatingWorkspace", LocOf(Val(sB))>>}),
     MkObj({<<"testCaseName", JNull>>})}
ItemLists == SeqsOf(ItemSet, 0, 1) \cup SeqsOf(CoreItems, 2, MaxItems)

\* ----- issues objects
CategoryKeys == {Categories[c].key : c \in 1..Len(Categories)}
CategorySlots == NonObjects \cup {EmptyDict, JObj("_values" :> JNull), JObj("_values" :> JStr(sA))}
                 \cup {Vals(l) : l \in ItemLists}
OneCategory == {MkObj({<<k, v>>}) : k \in CategoryKeys, v \in CategorySlots}
TwoCategories ==
    {MkObj({<<"errorSummaries", Vals(<<i>>)>>, <<k, Vals(<<j>>)>>}) :
        k \in {"testFailureSummaries", "analyzerWarningSummaries"},
        i \in CoreItems, j \in CoreItems}
IssuesSet == NonObjects \cup {EmptyDict} \cup OneCategory \cup TwoCategories
\* the issues objects used where two of them meet in one document
CoreIssues ==
    {EmptyDict} \cup {MkObj({<<"warningSummaries", Vals(<<i>>)>>}) : i \in CoreItems}

\* ----- actions
RefObj(r) == JObj("testsRef" :> JObj("id" :> r))
RefSlots ==
    NonObjects
    \cup {JObj("testsRef" :> v) : v \in NonObjects \cup {EmptyDict}}
    \cup {JObj("testsRef" :> JObj("id" :> v)) : v \in NonObjects \cup {EmptyDict}}
    \cup {RefObj(JObj("_value" :> JNull)), RefObj(Val(<<>>)), RefObj(Val(sA)), RefObj(Val(sB))}
    \cup {EmptyDict}
IssueActions ==
    {MkObj({<<rk, JObj("issues" :> i)>>}) :
        rk \in {"actionResult", "buildResult"}, i \in IssuesSet}
    \cup {MkObj({<<"actionResult", JObj("issues" :> i)>>, <<"buildResult", JObj("issues" :> j)>>}) :
            i \in CoreIssues, j \in CoreIssues}
    \cup {MkObj({<<"buildResult", v>>}) : v \in NonObjects \cup {EmptyDict}}
ShapeActions ==
    NonObjects \cup {EmptyDict} \cup {MkObj({<<"actionResult", v>>}) : v \in RefSlots}
\* the actions used in documents of several actions
CoreActions ==
    {EmptyDict,
     JObj("actionResult" :> RefObj(Val(<<>>))),
     JObj("actionResult" :> RefObj(Val(sA))),
     JObj("actionResult" :> RefObj(Val(sB))),
     JObj("actionResult" :> JObj("testsRef" :> JNull)),
     MkObj({<<"actionResult",
              MkObj({<<"issues", MkObj({<<"errorSummaries", Vals(<<EmptyDict>>)>>})>>})>>,
            <<"buildResult",
              MkObj({<<"issues",
                       MkObj({<<"warningSummaries",
                                Vals(<<MkObj({<<"message", Val(sB)>>})>>)>>})>>})>>})}

\* ----- documents
DocOf(actions) == JObj("actions" :> Vals(actions))
ShapeDocs ==
    NonObjects \cup {JList(<<>>), EmptyDict}
    \cup {JObj("actions" :> v) :
            v \in NonObjects \cup {EmptyDict, JObj("_values" :> JNull),
                                   JObj("_values" :> JStr(sA)), Vals(<<>>)}}
    \cup {DocOf(<<a>>) : a \in ShapeActions}
IssueDocs == {DocOf(<<a>>) : a \in IssueActions}
RefDocs == {DocOf(l) : l \in SeqsOf(CoreActions, 2, MaxActions)}
TestDocs == {DocOf(<<JObj("actionResult" :> RefObj(Val(sA)))>>)}

\* ----- the file named by --xcresult-json
Path == <<112>>
NoFile(p) == [path |-> p, exists |-> FALSE, size |-> 0, valid |-> FALSE, doc |-> JNull]
EmptyFile == [path |-> Path, exists |-> TRUE, size |-> 0, valid |-> FALSE, doc |-> JNull]
InvalidFile == [path |-> Path, exists |-> TRUE, size |-> 1, valid |-> FALSE, doc |-> JNull]
JsonFile(d) == [path |-> Path, exists |-> TRUE, size |-> 1, valid |-> TRUE, doc |-> d]
OtherFiles == {NoFile(<<>>), NoFile(Path), EmptyFile, InvalidFile}

\* ----- the secondary test tree
Status(s) == {<<"testStatus", Val(s)>>}
TestNode(P) == MkObj(P)
TreeOf(nodes) == JObj("summaries" :> Vals(nodes))
FlatTrees ==
    {TreeOf(l) :
        l \in SeqsOf({TestNode(Status(StatusFailure) \cup {<<"identifier", Val(n)>>}) : n \in Names},
                     1, MaxNodes)}
LeafNodes ==
    {TestNode(st \cup id \cup nm) :
        st \in Opt("testStatus", {Val(StatusFailure), Val(StatusFailed), Val(StatusSuccess),
                                  JObj("_value" :> JNull)}),
        id \in Opt("identifier", {Val(<<>>), Val(sA)}),
        nm \in Opt("name", {Val(<<>>), Val(sB)})}
NestedTrees ==
    {TreeOf(<<TestNode(st \cup id \cup {<<"subtests", Vals(<<kid>>)>>})>>) :
        st \in Opt("testStatus", {Val(StatusFailure), Val(StatusSuccess)}),
        id \in Opt("identifier", {Val(sB \o sA)}),
        kid \in LeafNodes}
BadNodes ==
    {TestNode({<<"testStatus", v>>, <<"identifier", Val(sA)>>}) : v \in NonObjects}
    \cup {TestNode(Status(s) \cup {<<"identifier", v>>, <<"name", Val(sB)>>}) :
            s \in {StatusFailed, StatusSuccess}, v \in NonObjects}
    \cup {TestNode(Status(StatusFailure) \cup id \cup {<<"name", v>>}) :
            id \in Opt("identifier", {Val(<<>>), Val(sA)}), v \in NonObjects}
OddTrees ==
    NonObjects \cup {JList(<<>>), EmptyDict}
    \cup {JList(<<n, TestNode(Status(StatusFailed) \cup {<<"name", Val(sB)>>})>>) : n \in BadNodes}
    \cup {TreeOf(<<TestNode(Status(StatusFailed) \cup {<<"name", Val(sB)>>}), n>>) : n \in BadNodes}
Trees == FlatTrees \cup NestedTrees \cup OddTrees

ToolDoes(kind) == [kind |-> kind, tree |-> JNull]
ToolPrints(t) == [kind |-> "json", tree |-> t]
CoreTools ==
    {ToolDoes("notfound"), ToolDoes("fail"), ToolDoes("garbage"), ToolPrints(JNull),
     ToolPrints(TreeOf(<<>>)),
     ToolPrints(TreeOf(<<TestNode(Status(StatusFailure) \cup {<<"identifier", Val(sA)>>})>>))}
TreeTools == {ToolPrints(t) : t \in Trees}

Bundle == <<98>>

(***************************************************************************)
(* main                                                                    *)
(***************************************************************************)
Inputs ==
    \/ /\ xcresult_json \in OtherFiles \cup {JsonFile(d) : d \in ShapeDocs}
       /\ bundle \in {<<>>, Bundle}
       /\ tool \in CoreTools
    \/ /\ xcresult_json \in {JsonFile(d) : d \in IssueDocs}
       /\ bundle = Bundle
       /\ tool = ToolDoes("fail")
    \/ /\ xcresult_json \in {JsonFile(d) : d \in RefDocs}
       /\ bundle \in {<<>>, Bundle}
       /\ tool \in CoreTools
    \/ /\ xcresult_json \in {JsonFile(d) : d \in TestDocs}
       /\ bundle = Bundle
       /\ tool \in TreeTools

Init ==
    /\ Inputs
    /\ pc = "load_json"
    /\ data = None
    /\ out = <<>>
    /\ printed_any = FALSE
    /\ idx = 1
    /\ tests_ref = <<>>
    /\ tests_data = None
    /\ failures = {}
    /\ exit_code = -1
    /\ error = NoErr
    /\ tool_calls = 0

\* an exception nobody catches: the interpreter prints a traceback to stderr
\* and the process exits 1
Uncaught(e) ==
    /\ pc' = "raised"
    /\ error' = e
    /\ exit_code' = 1

\* return 0 from main
Return0 ==
    /\ pc' = "done"
    /\ exit_code' = 0
    /\ error' = error

Goto(l) ==
    /\ pc' = l
    /\ exit_code' = exit_code
    /\ error' = error

\* the items' lines, marked with the action and the result they belong to
Tagged(lines, i, rk) == [n \in 1..Len(lines) |-> [lines[n] EXCEPT !.src = <<i, rk>> \o @]]

\* data = load_json(args.xcresult_json); if data is None: return 0
LoadJson ==
    /\ pc = "load_json"
    /\ LET r == load_json(xcresult_json)
       IN  /\ out' = out \o r.lines
           /\ IF IsRaise(r.ret) THEN Uncaught(r.ret.e) /\ data' = data
              ELSE IF r.ret = None THEN Return0 /\ data' = r.ret
              ELSE Goto("actions") /\ data' = r.ret
    /\ UNCHANGED <<xcresult_json, bundle, tool, printed_any, idx, tests_ref, tests_data,
                   failures, tool_calls>>

\* printed_any = False; actions = ...; if not actions: print(...)
CheckActions ==
    /\ pc = "actions"
    /\ LET actions == ActionsOf(data)
       IN  IF IsRaise(actions) THEN Uncaught(actions.e) /\ out' = out
           ELSE /\ Goto("emit")
                /\ out' = IF actions.v = <<>>
                          THEN Append(out, Diag("noactions", "No actions found in xcresult."))
                          ELSE out
    /\ printed_any' = FALSE
    /\ idx' = 1
    /\ UNCHANGED <<xcresult_json, bundle, tool, data, tests_ref, tests_data, failures,
                   tool_calls>>

\* one iteration of: for action in actions
EmitAction ==
    /\ pc = "emit"
    /\ idx <= Len(ActionsOf(data).v)
    /\ LET action == ActionsOf(data).v[idx]
           r1 == emit_all_issues(Get(Get(action, "actionResult", EmptyDict), "issues", EmptyDict))
           r2 == emit_all_issues(Get(Get(action, "buildResult", EmptyDict), "issues", EmptyDict))
           l1 == Tagged(r1.lines, idx, "actionResult")
           l2 == Tagged(r2.lines, idx, "buildResult")
       IN  IF r1.err # NoErr
           THEN /\ Uncaught(r1.err)
                /\ out' = out \o l1
                /\ UNCHANGED <<printed_any, idx>>
           ELSE IF r2.err # NoErr
           THEN /\ Uncaught(r2.err)
                /\ out' = out \o l1 \o l2
                /\ printed_any' = (printed_any \/ r1.ret)
                /\ idx' = idx
           ELSE /\ Goto("emit")
                /\ out' = out \o l1 \o l2
                /\ printed_any' = (printed_any \/ r1.ret \/ r2.ret)
                /\ idx' = idx + 1
    /\ UNCHANGED <<xcresult_json, bundle, tool, data, tests_ref, tests_data, failures,
                   tool_calls>>

\* if not printed_any: print("No issue summaries found in xcresult.")
Fallback ==
    /\ pc = "emit"
    /\ idx > Len(ActionsOf(data).v)
    /\ out' = IF ~printed_any
              THEN Append(out, Diag("fallback", "No issue summaries found in xcresult."))
              ELSE out
    /\ Goto("extract")
    /\ UNCHANGED <<xcresult_json, bundle, tool, data, printed_any, idx, tests_ref, tests_data,
                   failures, tool_calls>>

\* tests_ref = extract_tests_ref(data); if not tests_ref: print(...); return 0
ExtractTestsRef ==
    /\ pc = "extract"
    /\ LET ref == extract_tests_ref(data)
       IN  IF IsRaise(ref) THEN Uncaught(ref.e) /\ UNCHANGED <<out, tests_ref>>
           ELSE IF ~Truthy(ref)
           THEN /\ Return0
                /\ out' = Append(out, Diag("noref", "No testsRef found in xcresult."))
                /\ tests_ref' = <<>>
           ELSE /\ Goto("resolve")
                /\ out' = out
                /\ tests_ref' = ref.s
    /\ UNCHANGED <<xcresult_json, bundle, tool, data, printed_any, idx, tests_data, failures,
                   tool_calls>>

\* tests_data = load_tests_ref(args.bundle, tests_ref); if tests_data is None: return 0
LoadTestsRef ==
    /\ pc = "resolve"
    /\ LET r == load_tests_ref(bundle, tests_ref, tool)
       IN  /\ out' = out \o r.lines
           /\ tool_calls' = tool_calls + r.called
           /\ IF IsRaise(r.ret) THEN Uncaught(r.ret.e) /\ tests_data' = tests_data
              ELSE IF r.ret = None THEN Return0 /\ tests_data' = r.ret
              ELSE Goto("collect") /\ tests_data' = r.ret
    /\ UNCHANGED <<xcresult_json, bundle, tool, data, printed_any, idx, tests_ref, failures>>

\* failures = set(); collect_failing_tests(tests_data, failures)
CollectFailingTests ==
    /\ pc = "collect"
    /\ LET r == collect_failing_tests(tests_data, {})
       IN  /\ failures' = r.failures
           /\ IF r.err # NoErr THEN Uncaught(r.err) ELSE Goto("report")
    /\ UNCHANGED <<xcresult_json, bundle, tool, data, out, printed_any, idx, tests_ref,
                   tests_data, tool_calls>>

\* the failing-tests report, or "No failing tests found in testsRef."; return 0
Report ==
    /\ pc = "report"
    /\ out' = out \o report_lines(failures)
    /\ Return0
    /\ UNCHANGED <<xcresult_json, bundle, tool, data, printed_any, idx, tests_ref, tests_data,
                   failures, tool_calls>>

Next ==
    \/ LoadJson
    \/ CheckActions
    \/ EmitAction
    \/ Fallback
    \/ ExtractTestsRef
    \/ LoadTestsRef
    \/ CollectFailingTests
    \/ Report

Spec == Init /\ [][Next]_vars

(***************************************************************************)
(* Properties                                                              *)
(***************************************************************************)
Terminated == pc \in {"done", "raised"}
LinesAt(S) == {i \in 1..Len(out) : out[i].site \in S}
HasLine(site) == LinesAt({site}) # {}
IsIssuePhaseLine(l) == l.site \in {"noactions", "issue", "location", "fallback"}

\* C1: every run that gets past argument parsing ends with exit code 0 and
\* without an uncaught error, whatever the primary file holds and whatever
\* the external tool does.
C1_AlwaysExitsZero == Terminated => (exit_code = 0 /\ error = NoErr)

\* C2: once the actions have been iterated, the fallback "No issue summaries
\* found in xcresult." has been printed exactly when no issue line and no
\* location line was printed, and printed_any says whether one was.
C2_FallbackIffNothingPrinted ==
    pc = "extract" =>
        /\ HasLine("fallback") <=> (LinesAt({"issue", "location"}) = {})
        /\ printed_any <=> (LinesAt({"issue", "location"}) # {})

\* C3: a location line is printed only as the line immediately following the
\* issue line of the same item.
C3_LocationFollowsOwnIssueLine ==
    \A i \in 1..Len(out) :
        out[i].site = "location" =>
            /\ i > 1
            /\ out[i - 1].site = "issue"
            /\ out[i - 1].src = out[i].src

\* C4: no record with an absent, null or non-object field makes emit_issues,
\* extract_tests_ref or collect_failing_tests raise.
C4_MalformedFieldsNeverRaise == error # "AttributeError"

\* a comes strictly before b in lexicographic order of code points
Before(a, b) ==
    \E k \in 1..Len(b) :
        /\ \A m \in 1..(k - 1) : m <= Len(a) /\ a[m] = b[m]
        /\ (k > Len(a) \/ a[k] < b[k])

\* C5: when the resolved tree holds a failing test, the lines after
\* "Failing tests (testsRef):" are "- <name>" for every collected name, each
\* exactly once, in strictly increasing lexicographic order.
C5_FailingTestsListedOnceInOrder ==
    (pc = "done" /\ failures # {}) =>
        \E h \in 1..Len(out) :
            /\ out[h] = Diag("header", "Failing tests (testsRef):")
            /\ \A i \in 1..(h - 1) : out[i].site \notin {"header", "failing", "nofailing"}
            /\ \A i \in (h + 1)..Len(out) : out[i].site = "failing" /\ out[i].pre = "- "
            /\ {out[i].text : i \in (h + 1)..Len(out)} = failures
            /\ \A i, j \in (h + 1)..Len(out) : i < j => Before(out[i].text, out[j].text)

FailingNode(n) == TestNode(Status(StatusFailure) \cup {<<"identifier", Val(n)>>})
C5_Witness ==
    /\ pc = "done"
    /\ tests_data = TreeOf(<<FailingNode(sA), FailingNode(sA), FailingNode(sB)>>)
    /\ Len(out) = 4
    /\ out[3].text = sA
    /\ out[4].text = sB

\* C6: when the tool invocation ends with a non-zero exit, the diagnostic that
\* names the reference id is the last thing printed, no data is returned, and
\* the run exits 0 without the failing-tests list or the "No failing tests"
\* line.
C6_ToolFailureIsBenign ==
    (tool_calls = 1 /\ tool.kind = "fail") =>
        /\ pc = "done"
        /\ exit_code = 0
        /\ error = NoErr
        /\ tests_ref # <<>>
        /\ out # <<>>
        /\ out[Len(out)] = Line("toolfail", "xcresulttool failed to read testsRef ", tests_ref, <<>>)
        /\ tests_data = None
        /\ LinesAt({"header", "failing", "nofailing", "decodefail"}) = {}

C6_Witness ==
    /\ tool_calls = 1
    /\ tool.kind = "fail"
    /\ pc = "done"
    /\ tests_ref = sB

\* C7: with an empty path, a path naming no file or a file of zero size, the
\* run prints the one line "xcresult JSON is empty." and exits 0 having done
\* nothing else.
C7_EmptyInputIsNoOp ==
    (/\ pc # "load_json"
     /\ \/ xcresult_json.path = <<>>
        \/ ~xcresult_json.exists
        \/ xcresult_json.size = 0) =>
        /\ pc = "done"
        /\ exit_code = 0
        /\ error = NoErr
        /\ out = <<Diag("empty", "xcresult JSON is empty.")>>
        /\ data = None
        /\ tests_ref = <<>>
        /\ tests_data = None
        /\ tool_calls = 0

C7_Witness ==
    /\ pc = "done"
    /\ xcresult_json.exists
    /\ xcresult_json.size = 0
    /\ Len(out) = 1

\* the reference id an action exposes, read field by field; empty when any
\* step of the path is missing or is not what it should be
DeclaredRef(action) ==
    IF /\ action.t = "obj"
       /\ "actionResult" \in DOMAIN action.f
       /\ action.f["actionResult"].t = "obj"
       /\ "testsRef" \in DOMAIN action.f["actionResult"].f
       /\ action.f["actionResult"].f["testsRef"].t = "obj"
       /\ "id" \in DOMAIN action.f["actionResult"].f["testsRef"].f
       /\ action.f["actionResult"].f["testsRef"].f["id"].t = "obj"
       /\ "_value" \in DOMAIN action.f["actionResult"].f["testsRef"].f["id"].f
       /\ action.f["actionResult"].f["testsRef"].f["id"].f["_value"].t = "str"
    THEN action.f["actionResult"].f["testsRef"].f["id"].f["_value"].s
    ELSE <<>>

\* the list of actions of a document, empty when there is none
DeclaredActions(d) ==
    IF /\ d.t = "obj"
       /\ "actions" \in DOMAIN d.f
       /\ d.f["actions"].t = "obj"
       /\ "_values" \in DOMAIN d.f["actions"].f
       /\ d.f["actions"].f["_values"].t = "list"
    THEN d.f["actions"].f["_values"].v
    ELSE <<>>

\* extract_tests_ref has returned
Extracted ==
    \/ pc \in {"resolve", "collect", "report"}
    \/ Terminated /\ (HasLine("noref") \/ tests_ref # <<>>)

\* C8: the reference extract_tests_ref returns is that of the first action, in
\* document order, whose reference is non-empty; it is empty exactly when no
\* action has a non-empty reference.
C8_FirstNonEmptyRef ==
    Extracted =>
        LET actions == DeclaredActions(data)
            withRef == {i \in 1..Len(actions) : DeclaredRef(actions[i]) # <<>>}
        IN  /\ (tests_ref = <<>>) <=> (withRef = {})
            /\ \A i \in withRef :
                   (\A j \in withRef : i <= j) => tests_ref = DeclaredRef(actions[i])

C8_Witness ==
    /\ pc = "resolve"
    /\ tests_ref = sB
    /\ LET actions == DeclaredActions(data)
       IN  /\ Len(actions) = 3
           /\ actions[1] = EmptyDict
           /\ DeclaredRef(actions[2]) = sB
           /\ DeclaredRef(actions[3]) = sA

\* every dict reachable from a value through nested dicts and lists
RECURSIVE ObjectNodes(_)
ObjectNodes(n) ==
    IF n.t = "obj" THEN {n} \cup UNION {ObjectNodes(n.f[k]) : k \in DOMAIN n.f}
    ELSE IF n.t = "list" THEN UNION {ObjectNodes(n.v[i]) : i \in 1..Len(n.v)}
    ELSE {}

\* the string in n[k]["_value"], empty when there is none
DeclaredValue(n, k) ==
    IF /\ k \in DOMAIN n.f
       /\ n.f[k].t = "obj"
       /\ "_value" \in DOMAIN n.f[k].f
       /\ n.f[k].f["_value"].t = "str"
    THEN n.f[k].f["_value"].s
    ELSE <<>>

DeclaredName(n) ==
    IF DeclaredValue(n, "identifier") # <<>> THEN DeclaredValue(n, "identifier")
    ELSE DeclaredValue(n, "name")

\* collect_failing_tests has returned
Collected == pc = "report" \/ (pc = "done" /\ LinesAt({"header", "nofailing"}) # {})

\* C9: after the walk, the failures set holds exactly the non-empty display
\* names (identifier, else name) of the dicts of the tree whose status is
\* "Failure" or "Failed", at any depth, those below a failing node included.
C9_FailuresAreTheFailingNodes ==
    Collected =>
        failures =
            {DeclaredName(n) :
                n \in {m \in ObjectNodes(tests_data) :
                          DeclaredValue(m, "testStatus") \in {StatusFailure, StatusFailed}}}
            \ {<<>>}

C9_Witness ==
    /\ pc = "report"
    /\ failures = {sB \o sA, sB}
    /\ \E n \in ObjectNodes(tests_data) :
           /\ DeclaredValue(n, "testStatus") = StatusFailure
           /\ DeclaredName(n) = sB \o sA
           /\ \E m \in ObjectNodes(n) \ {n} :
                  /\ DeclaredValue(m, "testStatus") = StatusFailed
                  /\ DeclaredName(m) = sB

\* C10: the tool is run at most once, only from the resolve step with a
\* non-empty reference and a non-empty bundle path, and no issue line or
\* fallback follows it; an empty reference ends the run with "No testsRef
\* found in xcresult."; an empty bundle path ends it with nothing printed and
\* the tool not run.
C10_ToolRunOnceAfterIssues ==
    [][ /\ tool_calls' <= 1
        /\ tool_calls' # tool_calls =>
               /\ pc = "resolve"
               /\ tests_ref # <<>>
               /\ bundle # <<>>
        /\ tool_calls' = 1 =>
               SelectSeq(out', IsIssuePhaseLine) = SelectSeq(out, IsIssuePhaseLine)
        /\ (pc = "extract" /\ pc' # "raised" /\ tests_ref' = <<>>) =>
               /\ pc' = "done"
               /\ exit_code' = 0
               /\ out' = Append(out, Diag("noref", "No testsRef found in xcresult."))
               /\ tool_calls' = 0
        /\ (pc = "resolve" /\ bundle = <<>>) =>
               /\ pc' = "done"
               /\ exit_code' = 0
               /\ out' = out
               /\ tool_calls' = tool_calls
               /\ tests_data' = None
      ]_vars

C10_Witness ==
    /\ tool_calls = 1
    /\ pc = "done"
    /\ HasLine("issue")
    /\ HasLine("nofailing")

====
